---- MODULE Spec2Model ----
(***************************************************************************)
(* Model of src/main.py: the sliding-window z-score detector               *)
(* z_score_anomaly_detection_optimized.                                    *)
(*                                                                         *)
(* Stream values are floats.  A finite value is modelled by an integer,    *)
(* the non-finite floats by NaN, PosInf and NegInf, and a value that is    *)
(* not a number at all (a str) by Str.  The statistics are kept exact:     *)
(* the mean as the rational sum/n, the standard deviation by its square    *)
(* (the population variance) as a rational, and the threshold as a         *)
(* rational <<numerator, denominator>>.  For the small integers used here  *)
(* the sums are exact in float64, an all-equal window has std exactly 0.0, *)
(* every comparison that is strict in the rationals is apart by far more   *)
(* than one ulp, and a z-score equal to the threshold only arises from     *)
(* windows whose mean and std are exact binary fractions, so the float64   *)
(* computation decides the same way.                                       *)
(***************************************************************************)
EXTENDS Integers, Sequences, FiniteSets

\* ---- bounds of the model ------------------------------------------------
MaxWindowSize == 3
MaxItems == 4
MaxVal == 2
MaxFrames == 4
MaxDisplay == 4
\* update() computes its statistics over the last 30 values (lines 119-121);
\* the model runs the same code with a shorter statistical window.
StatWindow == 3

\* ---- values -------------------------------------------------------------
Num(i) == [kind |-> "fin", n |-> i]
NaN == [kind |-> "nan", n |-> 0]
PosInf == [kind |-> "inf", n |-> 1]
NegInf == [kind |-> "inf", n |-> -1]
Str == [kind |-> "str", n |-> 0]

Finite == {Num(i) : i \in 0..MaxVal}
Values == Finite \cup {NaN, PosInf, NegInf, Str}
Labels == {"normal", "anomaly"}
WindowSizes == -1..MaxWindowSize
Thresholds == {<<3, 2>>, <<3, 1>>}

IsNumber(v) == v.kind # "str"
IsFinite(v) == v.kind = "fin"

\* ---- collections.deque(maxlen=...) --------------------------------------
\* deque.append: the item is added on the right, then a deque longer than
\* maxlen is trimmed by popping from the left.
\* Variant: the trim pops from the right, so a full deque drops the new item.
DequeAppend_popRight(w, v, maxlen) ==
    LET e == Append(w, v)
    IN  IF Len(e) > maxlen THEN SubSeq(e, 1, Len(e) - 1) ELSE e

\* Variant: a plain list, maxlen ignored.
DequeAppend_unbounded(w, v, maxlen) == Append(w, v)

DequeAppend(w, v, maxlen) ==
    LET e == Append(w, v)
    IN  IF Len(e) > maxlen THEN Tail(e) ELSE e

\* ---- numpy statistics ---------------------------------------------------
RECURSIVE Sum(_)
Sum(w) == IF w = <<>> THEN 0 ELSE Head(w).n + Sum(Tail(w))

RECURSIVE SumSqDev(_, _, _)
\* sum of (n*x - s)^2 over w: n^2 times the sum of squared deviations
SumSqDev(w, n, s) ==
    IF w = <<>> THEN 0
    ELSE (n * Head(w).n - s) * (n * Head(w).n - s) + SumSqDev(Tail(w), n, s)

HasKind(w, k) == \E i \in 1..Len(w) : w[i].kind = k
AllFinite(w) == \A i \in 1..Len(w) : IsFinite(w[i])

\* np.mean / np.std convert the deque to an array; an element that is not a
\* number makes the reduction raise TypeError.
StatsRaise(w) == HasKind(w, "str")

\* np.mean(window): nan for an empty window (a warning, no exception), nan
\* or +-inf when a non-finite element is present, else sum/n.
np_mean(w) ==
    IF Len(w) = 0 \/ HasKind(w, "nan") THEN [kind |-> "nan", num |-> 0, den |-> 1]
    ELSE IF HasKind(w, "inf")
         THEN IF (\E i \in 1..Len(w) : w[i] = PosInf) /\ (\E j \in 1..Len(w) : w[j] = NegInf)
              THEN [kind |-> "nan", num |-> 0, den |-> 1]
              ELSE [kind |-> "inf", num |-> Sum(SelectSeq(w, LAMBDA x : x.kind = "inf")), den |-> 1]
         ELSE [kind |-> "fin", num |-> Sum(w), den |-> Len(w)]

\* np.std(window) = sqrt(mean(abs(x - x.mean())**2)), ddof = 0.  Kept as its
\* square sq_num/sq_den; nan when the window is empty or holds a non-finite
\* element (inf - inf and nan both poison the sum).
np_std(w) ==
    IF Len(w) = 0 \/ ~AllFinite(w) THEN [kind |-> "nan", sq_num |-> 0, sq_den |-> 1]
    ELSE [kind |-> "fin",
          sq_num |-> SumSqDev(w, Len(w), Sum(w)),
          sq_den |-> Len(w) * Len(w) * Len(w)]

\* Variant: the zero check left out.
StdNonZero_unguarded(std_dev) == TRUE

\* std_dev != 0  (nan != 0 is True)
StdNonZero(std_dev) == std_dev.kind = "nan" \/ std_dev.sq_num # 0

\* abs((value - mean) / std_dev) > threshold, for a number value and
\* std_dev != 0.  Any nan operand makes the comparison False; an infinite
\* value against finite statistics has an infinite z-score.
\* Variant: >= instead of >.
ZScoreExceeds_ge(value, mean, std_dev, threshold) ==
    IF value.kind = "nan" \/ mean.kind # "fin" \/ std_dev.kind # "fin" THEN FALSE
    ELSE IF value.kind = "inf" THEN TRUE
    ELSE LET d == mean.den * value.n - mean.num
         IN  d * d * std_dev.sq_den * threshold[2] * threshold[2]
               >= threshold[1] * threshold[1] * std_dev.sq_num * mean.den * mean.den

ZScoreExceeds(value, mean, std_dev, threshold) ==
    IF value.kind = "nan" \/ mean.kind # "fin" \/ std_dev.kind # "fin" THEN FALSE
    ELSE IF value.kind = "inf" THEN TRUE
    ELSE LET d == mean.den * value.n - mean.num
         IN  d * d * std_dev.sq_den * threshold[2] * threshold[2]
               > threshold[1] * threshold[1] * std_dev.sq_num * mean.den * mean.den

\* ---- the detector ---------------------------------------------------------
VARIABLES
    pc,           \* "start", "loop", "config_error" (deque() raised), "crashed"
    window_size,  \* parameter window_size
    threshold,    \* parameter threshold, <<numerator, denominator>>
    window,       \* the deque
    items,        \* values pulled from the stream so far (history)
    out,          \* per item: what the loop body printed (history)
    appended,     \* per item: whether window.append(value) was executed (history)
    before,       \* the window when the last item was pulled
    ref,          \* the sequence the last item's mean/std_dev were computed over
    divided,      \* whether the last item's (value - mean) / std_dev was evaluated
    window_b,     \* the deque of a second run fed the same values, other labels
    out_b,        \* what the second run printed
    display_size, \* visualize_data_stream: parameter window_size
    data,         \* visualize_data_stream: the list data
    anomalies,    \* visualize_data_stream: the list anomalies (0-based indices)
    frames,       \* number of calls of update so far
    marked,       \* per position of data: whether that value was marked on arrival
    last_marked   \* whether the last call of update marked its value

vizvars == <<display_size, data, anomalies, frames, marked, last_marked>>

vars == <<pc, window_size, threshold, window, items, out, appended, before, ref,
          divided, window_b, out_b, display_size, data, anomalies, frames, marked,
          last_marked>>

NoType == "-"
Printed(k, t) == [kind |-> k, type |-> t]

\* Lines 64-71: the statistics and the verdict for a full window w.
\* kind "Error" stands for an exception caught at line 76.
Verdict(w, value, threshold_) ==
    IF StatsRaise(w) THEN [kind |-> "Error", divided |-> FALSE]
    ELSE LET mean == np_mean(w)
             std_dev == np_std(w)
         IN  IF StdNonZero(std_dev)
             THEN IF ~IsNumber(value)
                  THEN [kind |-> "Error", divided |-> FALSE]   \* value - mean raises
                  ELSE [kind |-> IF ZScoreExceeds(value, mean, std_dev, threshold_)
                                 THEN "Anomaly" ELSE "Normal",
                        divided |-> TRUE]
             ELSE [kind |-> "Normal", divided |-> FALSE]

\* Variant: off by one, len(window) <= window_size.
WarmingUp_le(w, window_size_) == Len(w) <= window_size_

\* Line 59: len(window) < window_size
WarmingUp(w, window_size_) == Len(w) < window_size_

\* Variant: the value is appended before the statistics are computed.
ActiveStep_absorbFirst(w, value, value_type, window_size_, threshold_) ==
    LET w2 == DequeAppend(w, value, window_size_)
        v == Verdict(w2, value, threshold_)
    IN  IF v.kind = "Error"
        THEN [window |-> w2,
              out |-> Printed("Error", NoType), appended |-> TRUE,
              ref |-> w2, divided |-> v.divided]
        ELSE [window |-> w2,
              out |-> Printed(v.kind, IF v.kind = "Anomaly" THEN value_type ELSE NoType),
              appended |-> TRUE,
              ref |-> w2, divided |-> v.divided]

\* Variant: the append sits in the else branch, anomalies are not absorbed.
ActiveStep_skipAnomalies(w, value, value_type, window_size_, threshold_) ==
    LET v == Verdict(w, value, threshold_)
    IN  IF v.kind = "Error"
        THEN [window |-> w,
              out |-> Printed("Error", NoType), appended |-> FALSE,
              ref |-> w, divided |-> v.divided]
        ELSE [window |-> IF v.kind = "Anomaly" THEN w ELSE DequeAppend(w, value, window_size_),
              out |-> Printed(v.kind, IF v.kind = "Anomaly" THEN value_type ELSE NoType),
              appended |-> v.kind # "Anomaly",
              ref |-> w, divided |-> v.divided]

\* Variant: the except clause clears the window.
ActiveStep_clearOnError(w, value, value_type, window_size_, threshold_) ==
    LET v == Verdict(w, value, threshold_)
    IN  IF v.kind = "Error"
        THEN [window |-> <<>>,
              out |-> Printed("Error", NoType), appended |-> FALSE,
              ref |-> w, divided |-> v.divided]
        ELSE [window |-> DequeAppend(w, value, window_size_),
              out |-> Printed(v.kind, IF v.kind = "Anomaly" THEN value_type ELSE NoType),
              appended |-> TRUE,
              ref |-> w, divided |-> v.divided]

\* Variant: a value the source tagged "anomaly" is reported as one.
ActiveStep_trustLabel(w, value, value_type, window_size_, threshold_) ==
    LET v == Verdict(w, value, threshold_)
        k == IF v.kind = "Normal" /\ value_type = "anomaly" THEN "Anomaly" ELSE v.kind
    IN  IF k = "Error"
        THEN [window |-> w,
              out |-> Printed("Error", NoType), appended |-> FALSE,
              ref |-> w, divided |-> v.divided]
        ELSE [window |-> DequeAppend(w, value, window_size_),
              out |-> Printed(k, IF k = "Anomaly" THEN value_type ELSE NoType),
              appended |-> TRUE,
              ref |-> w, divided |-> v.divided]

\* Variant: the append sits in a finally clause and also runs after an error.
ActiveStep_appendOnError(w, value, value_type, window_size_, threshold_) ==
    LET v == Verdict(w, value, threshold_)
    IN  IF v.kind = "Error"
        THEN [window |-> DequeAppend(w, value, window_size_),
              out |-> Printed("Error", NoType), appended |-> TRUE,
              ref |-> w, divided |-> v.divided]
        ELSE [window |-> DequeAppend(w, value, window_size_),
              out |-> Printed(v.kind, IF v.kind = "Anomaly" THEN value_type ELSE NoType),
              appended |-> TRUE,
              ref |-> w, divided |-> v.divided]

\* Lines 63-79: the rest of the loop body, reached when the window is full.
\* ref is the sequence handed to np.mean / np.std.
ActiveStep(w, value, value_type, window_size_, threshold_) ==
    LET v == Verdict(w, value, threshold_)
    IN  IF v.kind = "Error"
        THEN [window |-> w,
              out |-> Printed("Error", NoType), appended |-> FALSE,
              ref |-> w, divided |-> v.divided]
        ELSE [window |-> DequeAppend(w, value, window_size_),
              out |-> Printed(v.kind, IF v.kind = "Anomaly" THEN value_type ELSE NoType),
              appended |-> TRUE,
              ref |-> w, divided |-> v.divided]

\* Lines 57-79: the body of the for loop for one (value, value_type) pair.
\* Nothing is printed during warm-up (kind "none").
LoopBody(w, value, value_type, window_size_, threshold_) ==
    IF WarmingUp(w, window_size_)
    THEN [window |-> DequeAppend(w, value, window_size_),
          out |-> Printed("none", NoType), appended |-> TRUE,
          ref |-> <<>>, divided |-> FALSE]
    ELSE ActiveStep(w, value, value_type, window_size_, threshold_)

Init ==
    /\ pc = "start"
    /\ window_size \in WindowSizes
    /\ threshold \in Thresholds
    /\ window = <<>>
    /\ items = <<>>
    /\ out = <<>>
    /\ appended = <<>>
    /\ before = <<>>
    /\ ref = <<>>
    /\ divided = FALSE
    /\ window_b = <<>>
    /\ out_b = <<>>
    /\ display_size = 0
    /\ data = <<>>
    /\ anomalies = <<>>
    /\ frames = 0
    /\ marked = <<>>
    /\ last_marked = FALSE

\* Line 53: deque(maxlen=window_size) accepts any maxlen >= 0.
Construct ==
    /\ pc = "start"
    /\ window_size >= 0
    /\ pc' = "loop"
    /\ UNCHANGED <<window_size, threshold, window, items, out, appended, before,
                   ref, divided, window_b, out_b>>
    /\ UNCHANGED vizvars

\* Line 53: deque(maxlen=window_size) raises ValueError for a negative maxlen.
ConstructRaises ==
    /\ pc = "start"
    /\ window_size < 0
    /\ pc' = "config_error"
    /\ UNCHANGED <<window_size, threshold, window, items, out, appended, before,
                   ref, divided, window_b, out_b>>
    /\ UNCHANGED vizvars

\* Lines 56-79: one iteration for a well-formed (value, value_type) pair.
ProcessItem ==
    /\ pc = "loop"
    /\ Len(items) < MaxItems
    /\ \E value \in Values, value_type \in Labels, value_type_b \in Labels :
         \E r \in {LoopBody(window, value, value_type, window_size, threshold)},
            rb \in {LoopBody(window_b, value, value_type_b, window_size, threshold)} :
             /\ window' = r.window
             /\ items' = Append(items, value)
             /\ out' = Append(out, r.out)
             /\ appended' = Append(appended, r.appended)
             /\ before' = window
             /\ ref' = r.ref
             /\ divided' = r.divided
             /\ window_b' = rb.window
             /\ out_b' = Append(out_b, rb.out)
    /\ UNCHANGED <<pc, window_size, threshold>>
    /\ UNCHANGED vizvars

\* Line 56: an item that does not unpack into (value, value_type) raises
\* outside the try block; the exception leaves the function.
MalformedItem ==
    /\ pc = "loop"
    /\ Len(items) < MaxItems
    /\ pc' = "crashed"
    /\ UNCHANGED <<window_size, threshold, window, items, out, appended, before,
                   ref, divided, window_b, out_b>>
    /\ UNCHANGED vizvars

Next ==
    \/ Construct
    \/ ConstructRaises
    \/ ProcessItem
    \/ MalformedItem

Spec == Init /\ [][Next]_vars

\* ---- the visualizer --------------------------------------------------------
\* visualize_data_stream.update, lines 110-124.  The stream yields numbers;
\* the plotting calls of lines 126-132 only read data and anomalies.
Numbers == Finite \cup {NaN, PosInf, NegInf}
DisplaySizes == 0..MaxDisplay
VizThresholds == {<<1, 1>>, <<3, 2>>}

\* Variant: >= instead of >, the buffer keeps one value less.
TrimDisplay_ge(d, display_size_) ==
    IF Len(d) >= display_size_ THEN Tail(d) ELSE d

\* Lines 115-116: if len(data) > window_size: data.pop(0)
TrimDisplay(d, display_size_) ==
    IF Len(d) > display_size_ THEN Tail(d) ELSE d

\* Lines 112-124: the value is appended and the buffer trimmed first; the
\* statistics are then taken over data[-30:], the new value included.
UpdateBody(data_, anomalies_, value, display_size_, threshold_) ==
    LET d == TrimDisplay(Append(data_, value), display_size_)
    IN  IF Len(d) >= StatWindow
        THEN LET recent == SubSeq(d, Len(d) - StatWindow + 1, Len(d))
                 mean == np_mean(recent)
                 std_dev == np_std(recent)
                 hit == StdNonZero(std_dev) /\ ZScoreExceeds(value, mean, std_dev, threshold_)
             IN  [data |-> d,
                  anomalies |-> IF hit THEN Append(anomalies_, Len(d) - 1) ELSE anomalies_,
                  marked |-> hit]
        ELSE [data |-> d, anomalies |-> anomalies_, marked |-> FALSE]

\* The visualizer next to a detector with window_size = StatWindow that is
\* fed the same stream.
InitViz ==
    /\ pc = "animating"
    /\ window_size = StatWindow
    /\ threshold \in VizThresholds
    /\ window = <<>>
    /\ items = <<>>
    /\ out = <<>>
    /\ appended = <<>>
    /\ before = <<>>
    /\ ref = <<>>
    /\ divided = FALSE
    /\ window_b = <<>>
    /\ out_b = <<>>
    /\ display_size \in DisplaySizes
    /\ data = <<>>
    /\ anomalies = <<>>
    /\ frames = 0
    /\ marked = <<>>
    /\ last_marked = FALSE

\* Lines 110-124: one call of update(frame); the detector's loop body
\* (lines 57-79) processes the same item.
Update ==
    /\ pc = "animating"
    /\ frames < MaxFrames
    /\ \E value \in Numbers, value_type \in Labels :
         \E u \in {UpdateBody(data, anomalies, value, display_size, threshold)},
            r \in {LoopBody(window, value, value_type, window_size, threshold)} :
             /\ data' = u.data
             /\ anomalies' = u.anomalies
             /\ marked' = TrimDisplay(Append(marked, u.marked), display_size)
             /\ last_marked' = u.marked
             /\ frames' = frames + 1
             /\ items' = Append(items, value)
             /\ window' = r.window
             /\ out' = Append(out, r.out)
             /\ appended' = Append(appended, r.appended)
             /\ before' = window
             /\ ref' = r.ref
             /\ divided' = r.divided
    /\ UNCHANGED <<pc, window_size, threshold, window_b, out_b, display_size>>

NextViz == Update

SpecViz == InitViz /\ [][NextViz]_vars

TypeOK ==
    /\ pc \in {"start", "loop", "config_error", "crashed"}
    /\ Len(out) = Len(items) /\ Len(appended) = Len(items)

\* ---- properties -----------------------------------------------------------
Started == pc \in {"loop", "crashed"}
NItems == Len(items)
LastN(s, k) == SubSeq(s, Len(s) - k + 1, Len(s))
NumbersUpTo(k) == \A i \in 1..k : IsNumber(items[i])
HasVerdict(i) == out[i].kind \in {"Normal", "Anomaly"}

RECURSIVE AcceptedUpTo(_)
\* the values of items 1..k for which window.append(value) was executed
AcceptedUpTo(k) ==
    IF k = 0 THEN <<>>
    ELSE IF appended[k] THEN Append(AcceptedUpTo(k - 1), items[k])
         ELSE AcceptedUpTo(k - 1)

\* C1: warm-up boundary.  Each of the first window_size items is only
\* appended to the window and gets no verdict (nothing is printed for it);
\* while no more than window_size items have arrived the window is exactly
\* the items so far; the (window_size+1)-th item of a stream of numbers gets
\* a Normal or Anomalous verdict.
WarmUpBoundary ==
    Started =>
      /\ \A i \in 1..NItems :
            /\ i <= window_size => out[i].kind = "none" /\ appended[i]
            /\ (i = window_size + 1 /\ NumbersUpTo(i)) => HasVerdict(i)
      /\ NItems <= window_size => window = items

WarmUpBoundaryWitness ==
    /\ pc = "loop"
    /\ window_size >= 2
    /\ NItems = window_size + 1
    /\ NumbersUpTo(NItems)
    /\ out[window_size].kind = "none"
    /\ out[window_size + 1].kind = "Anomaly"

\* C2: window sliding invariant.  After more than window_size items have
\* been processed the window is exactly the last window_size accepted
\* values (those for which append was executed), oldest first.
WindowSliding ==
    (Started /\ NItems > window_size) =>
      /\ Len(AcceptedUpTo(NItems)) >= window_size
      /\ window = LastN(AcceptedUpTo(NItems), window_size)

WindowSlidingWitness ==
    /\ pc = "loop"
    /\ window_size = 2
    /\ NItems >= window_size + 2
    /\ \E i \in 1..NItems : ~appended[i]
    /\ appended[NItems]
    /\ window[1] # window[2]
    /\ window # LastN(items, window_size)

\* C3: bounded window.  The window never holds more than window_size
\* values, and an append to a full window evicts its oldest element and
\* only that one: the rest keeps its order and the new value comes last
\* (a window of capacity 0 stays empty).
BoundedWindow ==
    Started =>
      /\ Len(window) <= window_size
      /\ (NItems > 0 /\ appended[NItems] /\ Len(before) = window_size) =>
            window = IF window_size = 0 THEN <<>>
                     ELSE Append(Tail(before), items[NItems])

BoundedWindowWitness ==
    /\ pc = "loop"
    /\ window_size = MaxWindowSize
    /\ NItems > window_size
    /\ appended[NItems]
    /\ Len(before) = window_size
    /\ before[1] # before[2]
    /\ window[window_size] # before[window_size]

RECURSIVE SumSq(_)
SumSq(w) == IF w = <<>> THEN 0 ELSE Head(w).n * Head(w).n + SumSq(Tail(w))

AllEqual(w) == \A i, j \in 1..Len(w) : w[i] = w[j]
Nums(s) == [i \in 1..Len(s) |-> Num(s[i])]

\* The z-score test in closed form: with n = len(w), S = sum(w) and
\* Q = sum of squares, mean = S/n and the population variance is
\* (n*Q - S^2)/n^2, so |v - mean| / std > t  iff  (n*v - S)^2 > t^2 * (n*Q - S^2).
ZTest(w, v, t) ==
    LET n == Len(w)
        d == n * v - Sum(w)
    IN  d * d * t[2] * t[2] > t[1] * t[1] * (n * SumSq(w) - Sum(w) * Sum(w))

\* The last item met a full window
LastActive == Started /\ NItems > 0 /\ window_size >= 1 /\ Len(before) = window_size

\* C4: classification rule.  A finite value that meets a full window of
\* finite values with non-zero standard deviation is Anomalous exactly when
\* its z-score against the population mean and standard deviation of that
\* window is strictly above the threshold, and Normal otherwise (also when
\* the z-score equals the threshold).  window_size=4, threshold=1.5,
\* values 1,2,3,4,20: the 5th is Anomalous.
ClassificationRule ==
    /\ (LastActive /\ AllFinite(before) /\ ~AllEqual(before) /\ IsFinite(items[NItems])) =>
          /\ HasVerdict(NItems)
          /\ out[NItems].kind = "Anomaly" <=> ZTest(before, items[NItems].n, threshold)
    /\ LoopBody(Nums(<<1, 2, 3, 4>>), Num(20), "anomaly", 4, <<3, 2>>).out.kind = "Anomaly"

ClassificationRuleWitness ==
    /\ LastActive /\ AllFinite(before) /\ ~AllEqual(before) /\ IsFinite(items[NItems])
    /\ out[NItems].kind = "Anomaly"
    /\ \E i \in 1..NItems - 1 : out[i].kind = "Normal" /\ IsFinite(items[i])

\* C5: zero-variance safety.  A value that meets a full window of identical
\* values is Normal whatever it is, the division by std_dev is not
\* evaluated, no error is reported and the value is appended.
\* window_size=3, values 10,10,10,10,100: the 4th and 5th are Normal.
ZeroVarianceSafety ==
    /\ (LastActive /\ AllFinite(before) /\ AllEqual(before)) =>
          /\ out[NItems].kind = "Normal"
          /\ ~divided
          /\ appended[NItems]
    /\ \A v \in {10, 100} :
          LET r == LoopBody(Nums(<<10, 10, 10>>), Num(v), "anomaly", 3, <<2, 1>>)
          IN  r.out.kind = "Normal" /\ ~r.divided /\ r.window = Nums(<<10, 10, v>>)

ZeroVarianceSafetyWitness ==
    /\ LastActive /\ AllFinite(before) /\ AllEqual(before)
    /\ window_size >= 2
    /\ before[1] = Num(0)
    /\ items[NItems] = Num(MaxVal)
    /\ out[NItems].kind = "Normal"

NoFailureSoFar == \A i \in 1..NItems : appended[i]
AppendedAfter(i) == Cardinality({j \in (i + 1)..NItems : appended[j]})

\* C6: evaluate-then-absorb.  Whenever an item gets a verdict, its mean and
\* std_dev were computed over the window as it stood before the item was
\* appended: the last window_size values accepted before it, which for
\* item k of a stream without failed items are items k-window_size .. k-1.
EvaluateThenAbsorb ==
    (Started /\ NItems > 0 /\ HasVerdict(NItems)) =>
      /\ ref = before
      /\ Len(AcceptedUpTo(NItems - 1)) >= window_size
      /\ ref = LastN(AcceptedUpTo(NItems - 1), window_size)
      /\ NoFailureSoFar =>
            /\ NItems > window_size
            /\ ref = SubSeq(items, NItems - window_size, NItems - 1)

EvaluateThenAbsorbWitness ==
    /\ pc = "loop"
    /\ window_size >= 2
    /\ NItems >= window_size + 2
    /\ NoFailureSoFar
    /\ out[NItems].kind = "Anomaly"
    /\ \A i \in 1..Len(ref) : ref[i] # items[NItems]
    /\ ref # SubSeq(items, 1, window_size)

\* C7: absorb regardless of verdict.  Every item that got a verdict, Normal
\* or Anomalous, was appended; right after a verdict the value is the newest
\* element of the window; and an Anomalous value is still in the window,
\* behind the values appended since, while fewer than window_size items
\* have followed it.
AbsorbRegardless ==
    Started =>
      /\ \A i \in 1..NItems : HasVerdict(i) => appended[i]
      /\ (NItems > 0 /\ HasVerdict(NItems) /\ window_size >= 1) =>
            window = Append(SubSeq(before, 2, Len(before)), items[NItems])
      /\ \A i \in 1..NItems :
            (out[i].kind = "Anomaly" /\ NItems - i < window_size) =>
               /\ Len(window) > AppendedAfter(i)
               /\ window[Len(window) - AppendedAfter(i)] = items[i]

AbsorbRegardlessWitness ==
    /\ pc = "loop"
    /\ window_size >= 2
    /\ \E i \in 1..NItems - 1 :
          /\ out[i].kind = "Anomaly"
          /\ NItems - i < window_size
          /\ out[NItems].kind = "Normal"
          /\ items[i] # items[NItems]

\* C8: state machine.  The window is full exactly from the window_size-th
\* item on; its length only ever grows, by one, while it is not full; and
\* once it equals window_size it equals window_size after every later
\* step, failed items included.
StateMachine ==
    /\ [](Started => (Len(window) = window_size <=> NItems >= window_size))
    /\ [][/\ Len(window) = window_size => Len(window') = window_size
          /\ Len(window') # Len(window) =>
                (Len(window) < window_size /\ Len(window') = Len(window) + 1)]_vars

StateMachineWitness ==
    /\ Started
    /\ window_size >= 2
    /\ Len(window) = window_size
    /\ NItems >= window_size + 2
    /\ out[NItems].kind = "Error"
    /\ HasVerdict(NItems - 1)

\* C9: label independence.  A second run with the same parameters, fed the
\* same values under other labels, has the same window after every item
\* and gave every item the same kind of verdict.
LabelIndependence ==
    /\ window_b = window
    /\ Len(out_b) = Len(out)
    /\ \A i \in 1..Len(out) : out_b[i].kind = out[i].kind

LabelIndependenceWitness ==
    /\ pc = "loop"
    /\ \E i \in 1..NItems - 1 :
          /\ out[i].kind = "Anomaly"
          /\ out[i].type # out_b[i].type
          /\ out[NItems].kind = "Normal"

\* C10: fail-fast configuration.  With window_size < 2 the detector never
\* gets past construction: it ends in a configuration error and no stream
\* item is ever consumed.
FailFastConfiguration ==
    window_size < 2 => (pc \in {"start", "config_error"} /\ items = <<>>)

IsNonFinite(v) == v.kind \in {"nan", "inf"}

\* C11: non-finite input rejection.  The window holds only finite values,
\* and a NaN or infinite item, in warm-up or in the Active phase, is not
\* appended and gets neither a Normal nor an Anomalous verdict.  Stated
\* for the window sizes the specification admits (window_size >= 2).
NonFiniteRejected ==
    (Started /\ window_size >= 2) =>
      /\ \A i \in 1..Len(window) : ~IsNonFinite(window[i])
      /\ \A i \in 1..NItems :
            IsNonFinite(items[i]) => (~appended[i] /\ ~HasVerdict(i))

\* C12: recovery after a bad item.  The valid item that directly follows an
\* invalid one (non-finite or not a number) is processed normally: it is
\* appended, silently during warm-up and with a Normal or Anomalous verdict
\* once the window is full, and no error is reported for it.  Stated for
\* window_size >= 2.
RecoveryAfterBadItem ==
    (Started /\ window_size >= 2) =>
      \A i \in 2..NItems :
        (~IsFinite(items[i - 1]) /\ IsFinite(items[i])) =>
           /\ out[i].kind # "Error"
           /\ appended[i]
           /\ i > window_size => HasVerdict(i)

\* C13: the stream is never terminated by a bad item.  No item, a source
\* item that is not a (value, label) pair included, makes the detector
\* leave its loop with an exception.  Stated for window_size >= 2.
StreamNeverTerminated == window_size >= 2 => pc # "crashed"

\* C14: window unchanged on error.  When the loop body of the last item
\* raised (an error was reported for it), the window is the window the
\* item met: the value was not appended and nothing was evicted.
WindowUnchangedOnError ==
    (Started /\ NItems > 0 /\ out[NItems].kind = "Error") =>
      /\ window = before
      /\ ~appended[NItems]
      /\ AcceptedUpTo(NItems) = AcceptedUpTo(NItems - 1)

WindowUnchangedOnErrorWitness ==
    /\ pc = "loop"
    /\ window_size >= 2
    /\ NItems >= window_size + 2
    /\ out[NItems].kind = "Error"
    /\ items[NItems] = Str
    /\ AllFinite(before)
    /\ Len(before) = window_size
    /\ HasVerdict(NItems - 1)

Animating == pc = "animating"
Min(a, b) == IF a < b THEN a ELSE b

\* C15: visualizer and detector agree.  With a display buffer at least as
\* long as the statistical window, update marks the value of a frame
\* exactly when the detector with window_size = StatWindow, fed the same
\* values under the same threshold, classifies that value Anomalous; in
\* particular no value among the first StatWindow is marked.
VisualizerAgreesWithDetector ==
    (Animating /\ frames > 0 /\ display_size >= StatWindow) =>
      /\ last_marked <=> out[NItems].kind = "Anomaly"
      /\ frames <= StatWindow => ~last_marked

\* C16: anomaly indices track their values.  After every call of update,
\* each index in anomalies is a position of data, and the value at that
\* position is one that was marked when it arrived.
AnomalyIndicesTrackValues ==
    Animating =>
      \A k \in 1..Len(anomalies) :
        /\ anomalies[k] \in 0..(Len(data) - 1)
        /\ marked[anomalies[k] + 1]

\* C17: display buffer bound.  After every call of update exactly one item
\* per frame has been pulled, data has length min(frames, window_size) and
\* is the most recent values of the stream in arrival order (so a call
\* drops nothing or the oldest value only).
DisplayBufferBound ==
    Animating =>
      /\ Len(items) = frames
      /\ Len(data) = Min(frames, display_size)
      /\ data = LastN(items, Len(data))
      /\ Len(marked) = Len(data)

DisplayBufferBoundWitness ==
    /\ Animating
    /\ display_size >= 2
    /\ frames >= display_size + 2
    /\ data[1] # data[2]
    /\ data # SubSeq(items, 1, display_size)

====
